---------------------------- MODULE Spec2Model ----------------------------
(***************************************************************************)
(* Model of tools/fetch_official_schedule.py: the line classifier (the     *)
(* five regular expressions of build_schedule), the date and time          *)
(* normalizers, and the line loop of build_schedule as a state machine.    *)
(*                                                                         *)
(* Text is modelled as TLA+ strings; the regular expressions are written   *)
(* out as matchers over the characters of a line.  Lines are the output    *)
(* of fetch_lines: trimmed, non-empty, runs of whitespace collapsed to one *)
(* blank.                                                                  *)
(***************************************************************************)
EXTENDS Integers, Sequences, FiniteSets, TLC

(***************************************************************************)
(* Python values.  None is the empty tuple and a present value x is <<x>>, *)
(* so that an optional value can always be compared with another.          *)
(***************************************************************************)
None == <<>>

Some(x) == <<x>>

Val(o) == o[1]

(***************************************************************************)
(* Characters and strings.                                                 *)
(***************************************************************************)
Ch(s, i) == SubSeq(s, i, i)

UpperAlpha == "ABCDEFGHIJKLMNOPQRSTUVWXYZ"

LowerAlpha == "abcdefghijklmnopqrstuvwxyz"

Digits == "0123456789"

IsDigit(c) == \E i \in 1..10 : Ch(Digits, i) = c

IsUpper(c) == \E i \in 1..26 : Ch(UpperAlpha, i) = c

IsLower(c) == \E i \in 1..26 : Ch(LowerAlpha, i) = c

IsAlpha(c) == IsUpper(c) \/ IsLower(c)

IsSpace(c) == c = " "

\* str.lower() on one character
LowerCh(c) ==
    IF IsUpper(c)
    THEN Ch(LowerAlpha, CHOOSE i \in 1..26 : Ch(UpperAlpha, i) = c)
    ELSE c

RECURSIVE Lower(_)
\* str.lower()
Lower(s) ==
    IF s = "" THEN "" ELSE LowerCh(Ch(s, 1)) \o Lower(SubSeq(s, 2, Len(s)))

RECURSIVE LStrip(_)
LStrip(s) ==
    IF s # "" /\ IsSpace(Ch(s, 1)) THEN LStrip(SubSeq(s, 2, Len(s))) ELSE s

RECURSIVE RStrip(_)
RStrip(s) ==
    IF s # "" /\ IsSpace(Ch(s, Len(s)))
    THEN RStrip(SubSeq(s, 1, Len(s) - 1))
    ELSE s

\* str.strip()
Strip(s) == RStrip(LStrip(s))

RECURSIVE Replace(_, _, _)
\* str.replace(old, new): every non-overlapping occurrence, left to right
Replace(s, old, new) ==
    IF Len(s) < Len(old) THEN s
    ELSE IF SubSeq(s, 1, Len(old)) = old
         THEN new \o Replace(SubSeq(s, Len(old) + 1, Len(s)), old, new)
         ELSE Ch(s, 1) \o Replace(SubSeq(s, 2, Len(s)), old, new)

RECURSIVE RemoveSpaces(_)
\* re.sub(r"\s+", "", s)
RemoveSpaces(s) ==
    IF s = "" THEN ""
    ELSE IF IsSpace(Ch(s, 1)) THEN RemoveSpaces(SubSeq(s, 2, Len(s)))
         ELSE Ch(s, 1) \o RemoveSpaces(SubSeq(s, 2, Len(s)))

RECURSIVE Split(_)
\* str.split(): the maximal runs of non-blank characters, in order
Split(s) ==
    LET t == LStrip(s)
        firstSpace == IF \E i \in 1..Len(t) : IsSpace(Ch(t, i))
                      THEN CHOOSE i \in 1..Len(t) :
                               /\ IsSpace(Ch(t, i))
                               /\ \A j \in 1..(i - 1) : ~IsSpace(Ch(t, j))
                      ELSE Len(t) + 1
    IN  IF t = "" THEN <<>>
        ELSE <<SubSeq(t, 1, firstSpace - 1)>>
                 \o Split(SubSeq(t, firstSpace, Len(t)))

AllDigits(s) == s # "" /\ \A i \in 1..Len(s) : IsDigit(Ch(s, i))

DigitVal(c) == CHOOSE d \in 0..9 : Ch(Digits, d + 1) = c

RECURSIVE IntOf(_)
\* int(s) for a string of decimal digits
IntOf(s) ==
    IF s = "" THEN 0
    ELSE 10 * IntOf(SubSeq(s, 1, Len(s) - 1)) + DigitVal(Ch(s, Len(s)))

\* str(n), and the {n} of an f-string, for n >= 0
Str(n) == ToString(n)

\* the first index >= i of s that holds no blank (Len(s) + 1 when none)
RECURSIVE SkipSpaces(_, _)
SkipSpaces(s, i) ==
    IF i <= Len(s) /\ IsSpace(Ch(s, i)) THEN SkipSpaces(s, i + 1) ELSE i

\* the first index >= i of s that holds no letter
RECURSIVE SkipAlpha(_, _)
SkipAlpha(s, i) ==
    IF i <= Len(s) /\ IsAlpha(Ch(s, i)) THEN SkipAlpha(s, i + 1) ELSE i

\* the first index >= i of s that holds no digit
RECURSIVE SkipDigits(_, _)
SkipDigits(s, i) ==
    IF i <= Len(s) /\ IsDigit(Ch(s, i)) THEN SkipDigits(s, i + 1) ELSE i

(***************************************************************************)
(* The regular expressions of build_schedule and parse_time_et_to_ct.  A   *)
(* matcher returns None when the pattern does not match the whole line,    *)
(* and its captured groups otherwise.                                      *)
(***************************************************************************)

\* r"^WEEK\s+(\d+)$", re.I: Some(group 1) or None
week_re(line) ==
    LET j == SkipSpaces(line, 5)
    IN  IF /\ Len(line) >= 6
           /\ Lower(SubSeq(line, 1, 4)) = "week"
           /\ j > 5
           /\ AllDigits(SubSeq(line, j, Len(line)))
        THEN Some(SubSeq(line, j, Len(line)))
        ELSE None

Weekdays ==
    {"monday", "tuesday", "wednesday", "thursday", "friday", "saturday",
     "sunday"}

\* r"^(Monday|...|Sunday),?\s+[A-Za-z]+\.?\s+\d{1,2},\s+2025$", re.I
date_re(line) ==
    \E wd \in Weekdays :
        LET a == Len(wd) + 1
            b == IF a <= Len(line) /\ Ch(line, a) = "," THEN a + 1 ELSE a
            c == SkipSpaces(line, b)
            d == SkipAlpha(line, c)
            e == IF d <= Len(line) /\ Ch(line, d) = "." THEN d + 1 ELSE d
            f == SkipSpaces(line, e)
            g == SkipDigits(line, f)
            h == g + 1
            k == SkipSpaces(line, h)
        IN  /\ Len(line) >= Len(wd)
            /\ Lower(SubSeq(line, 1, Len(wd))) = wd
            /\ c > b
            /\ d > c
            /\ f > e
            /\ (g - f) \in {1, 2}
            /\ g <= Len(line)
            /\ Ch(line, g) = ","
            /\ k > h
            /\ SubSeq(line, k, Len(line)) = "2025"

\* whether r"\s+(at|vs)\s+" and one character more match from index i of s
SepAt(s, i) ==
    LET j == SkipSpaces(s, i)
        k == SkipSpaces(s, j + 2)
    IN  /\ j > i
        /\ j + 1 <= Len(s)
        /\ Lower(SubSeq(s, j, j + 1)) \in {"at", "vs"}
        /\ k > j + 2
        /\ k <= Len(s)

\* whether r"\s+\(([^)]+)\)$" matches the part of s after its first m characters
ParenAfter(s, m) ==
    LET p == SkipSpaces(s, m + 1)
    IN  /\ p > m + 1
        /\ p + 2 <= Len(s)
        /\ Ch(s, p) = "("
        /\ Ch(s, Len(s)) = ")"
        /\ \A q \in (p + 1)..(Len(s) - 1) : Ch(s, q) # ")"

\* r"^(.+?)\s+(at|vs)\s+(.+?)(?:\s+\(([^)]+)\))?$", re.I: the four groups
\* (group 4 is None when the parenthesized part is absent), or None
game_re(line) ==
    LET starts == {i \in 2..Len(line) : SepAt(line, i)}
    IN  IF starts = {} THEN None
        ELSE LET i == CHOOSE x \in starts : \A y \in starts : x <= y
                 j == SkipSpaces(line, i)
                 k == SkipSpaces(line, j + 2)
                 rest == SubSeq(line, k, Len(line))
                 ms == {m \in 1..(Len(rest) - 1) : ParenAfter(rest, m)}
                 m == CHOOSE x \in ms : \A y \in ms : x <= y
                 p == SkipSpaces(rest, m + 1)
             IN  Some([g1 |-> SubSeq(line, 1, i - 1),
                       g2 |-> SubSeq(line, j, j + 1),
                       g3 |-> IF ms = {} THEN rest ELSE SubSeq(rest, 1, m),
                       g4 |-> IF ms = {} THEN None
                              ELSE Some(SubSeq(rest, p + 1, Len(rest) - 1))])

\* r"^(\d{1,2}):(\d{2})([ap])$": the three groups, or None
hm_re(s) ==
    LET c == SkipDigits(s, 1)
    IN  IF /\ c \in {2, 3}
           /\ Len(s) = c + 3
           /\ Ch(s, c) = ":"
           /\ IsDigit(Ch(s, c + 1))
           /\ IsDigit(Ch(s, c + 2))
           /\ Ch(s, c + 3) \in {"a", "p"}
        THEN Some([g1 |-> SubSeq(s, 1, c - 1),
                   g2 |-> SubSeq(s, c + 1, c + 2),
                   g3 |-> Ch(s, c + 3)])
        ELSE None

\* r"^\d{1,2}:\d{2}[ap]$"
time_bare_re(line) == hm_re(line) # None

\* the first index of s that holds a blank (Len(s) + 1 when none)
RECURSIVE FirstSpace(_, _)
FirstSpace(s, i) ==
    IF i <= Len(s) /\ ~IsSpace(Ch(s, i)) THEN FirstSpace(s, i + 1) ELSE i

\* r"^\d{1,2}:\d{2}[ap]\s+\([A-Z]{2,4}\)$"
time_with_zone_re(line) ==
    LET c == FirstSpace(line, 1)
        p == SkipSpaces(line, c)
    IN  /\ c <= Len(line)
        /\ hm_re(SubSeq(line, 1, c - 1)) # None
        /\ p <= Len(line)
        /\ Ch(line, p) = "("
        /\ Ch(line, Len(line)) = ")"
        /\ (Len(line) - p - 1) \in 2..4
        /\ \A q \in (p + 1)..(Len(line) - 1) : IsUpper(Ch(line, q))

(***************************************************************************)
(* A call either returns a value or raises.                                *)
(***************************************************************************)
Return(v) == [raised |-> FALSE, value |-> v]

Raise(e) == [raised |-> TRUE, value |-> e]

(***************************************************************************)
(* normalize_date_line                                                     *)
(***************************************************************************)
MONTHS ==
    [Jan |-> 1, January |-> 1, Feb |-> 2, February |-> 2, Mar |-> 3,
     March |-> 3, Apr |-> 4, April |-> 4, May |-> 5, Jun |-> 6, June |-> 6,
     Jul |-> 7, July |-> 7, Aug |-> 8, August |-> 8, Sep |-> 9, Sept |-> 9,
     September |-> 9, Oct |-> 10, October |-> 10, Nov |-> 11,
     November |-> 11, Dec |-> 12, December |-> 12]

\* MONTHS.get(month_txt, None)
MonthsGet(month_txt) ==
    IF month_txt \in DOMAIN MONTHS THEN Some(MONTHS[month_txt]) ELSE None

\* int(txt): ValueError unless txt is a string of digits
PyInt(txt) == IF AllDigits(txt) THEN Return(IntOf(txt)) ELSE Raise("ValueError")

\* Returns None, or the triple (year, month, day) as Some(<<y, m, d>>);
\* raises when the day or the year is no number.
normalize_date_line(line) ==
    LET s == Strip(Replace(Replace(line, ",", ""), ".", ""))
        parts == Split(s)
        month == MonthsGet(parts[2])
        day == PyInt(parts[3])
        year == PyInt(parts[4])
    IN  IF Len(parts) < 4 THEN Return(None)
        ELSE IF month = None THEN Return(None)
        ELSE IF day.raised THEN day
        ELSE IF year.raised THEN year
        ELSE Return(Some(<<year.value, Val(month), day.value>>))

(***************************************************************************)
(* datetime, the two time zones and strftime.  The zone rules are those of *)
(* the season year, the only year date_re lets through: in 2025 both zones *)
(* are on daylight time from 2:00 standard time on March 9 until 2:00      *)
(* daylight time on November 2, each by its own clock.                     *)
(***************************************************************************)
SeasonYear == IntOf("2025")

IsLeap(y) == (y % 4 = 0 /\ y % 100 # 0) \/ y % 400 = 0

DaysInMonth(y, m) ==
    IF m = 2 THEN (IF IsLeap(y) THEN 29 ELSE 28)
    ELSE IF m \in {4, 6, 9, 11} THEN 30 ELSE 31

DaysInYear(y) == IF IsLeap(y) THEN 366 ELSE 365

RECURSIVE DaysBeforeMonth(_, _)
DaysBeforeMonth(y, m) ==
    IF m = 1 THEN 0 ELSE DaysBeforeMonth(y, m - 1) + DaysInMonth(y, m - 1)

\* datetime(y, mo, d, hour, minute) accepts its arguments
ValidDateTime(y, mo, d, hour, minute) ==
    /\ y \in 1..9999
    /\ mo \in 1..12
    /\ d \in 1..DaysInMonth(y, mo)
    /\ hour \in 0..23
    /\ minute \in 0..59

\* minutes from the start of year y to the wall-clock time given
MinuteOfYear(y, mo, d, hour, minute) ==
    ((DaysBeforeMonth(y, mo) + d - 1) * 24 + hour) * 60 + minute

\* ZoneInfo("America/New_York").utcoffset of a wall-clock time of the season
\* year (fold = 0), in minutes: a wall time the spring gap skips counts as
\* standard time, the repeated hour in autumn as daylight time
NewYorkOffset(wall) ==
    IF /\ wall >= MinuteOfYear(SeasonYear, 3, 9, 3, 0)
       /\ wall < MinuteOfYear(SeasonYear, 11, 2, 2, 0)
    THEN 0 - 240 ELSE 0 - 300

\* a destination zone that keeps New York's clock
ChicagoOnEasternTime(utc) ==
    IF /\ utc >= MinuteOfYear(SeasonYear, 3, 9, 7, 0)
       /\ utc < MinuteOfYear(SeasonYear, 11, 2, 6, 0)
    THEN 0 - 240 ELSE 0 - 300

\* ZoneInfo("America/Chicago").utcoffset at a UTC time of the season year
ChicagoOffset(utc) ==
    IF /\ utc >= MinuteOfYear(SeasonYear, 3, 9, 8, 0)
       /\ utc < MinuteOfYear(SeasonYear, 11, 2, 7, 0)
    THEN 0 - 300 ELSE 0 - 360

FloorDiv(a, b) == IF a >= 0 THEN a \div b ELSE 0 - ((b - 1 - a) \div b)

\* the month in which day-of-year doy (from 1) of year y falls
MonthOfDay(y, doy) ==
    CHOOSE m \in 1..12 :
        /\ DaysBeforeMonth(y, m) < doy
        /\ doy <= DaysBeforeMonth(y, m) + DaysInMonth(y, m)

\* dt_et.astimezone(ZoneInfo("America/Chicago")) for a wall-clock time of the
\* season year in New York: the Chicago wall-clock fields
astimezone(mo, d, hour, minute) ==
    LET wall == MinuteOfYear(SeasonYear, mo, d, hour, minute)
        utc == wall - NewYorkOffset(wall)
        ct == utc + ChicagoOffset(utc)
        dayIdx == FloorDiv(ct, 1440)
        y == IF dayIdx < 0 THEN SeasonYear - 1
             ELSE IF dayIdx >= DaysInYear(SeasonYear) THEN SeasonYear + 1
             ELSE SeasonYear
        doy == IF dayIdx < 0 THEN DaysInYear(y) + dayIdx + 1
               ELSE IF dayIdx >= DaysInYear(SeasonYear)
                    THEN dayIdx - DaysInYear(SeasonYear) + 1
               ELSE dayIdx + 1
        m == MonthOfDay(y, doy)
        inDay == ct - dayIdx * 1440
    IN  [year |-> y, month |-> m, day |-> doy - DaysBeforeMonth(y, m),
         hour |-> inDay \div 60, minute |-> inDay % 60]

\* %m, %d, %H, %M: two digits
Pad2(n) == IF n < 10 THEN "0" \o Str(n) ELSE Str(n)

\* %Y: four digits
Pad4(n) ==
    IF n < 10 THEN "000" \o Str(n)
    ELSE IF n < 100 THEN "00" \o Str(n)
    ELSE IF n < 1000 THEN "0" \o Str(n) ELSE Str(n)

\* dt.strftime("%Y-%m-%dT%H:%M:00")
strftime(dt) ==
    Pad4(dt.year) \o "-" \o Pad2(dt.month) \o "-" \o Pad2(dt.day) \o "T"
        \o Pad2(dt.hour) \o ":" \o Pad2(dt.minute) \o ":00"

(***************************************************************************)
(* parse_time_et_to_ct                                                     *)
(***************************************************************************)
\* the match object m of lines 67-74: the strict pattern on the lowered
\* text, then once more after the forgiving rewrite
TimeMatch(et_text) ==
    LET hm == Lower(Strip(et_text))
        hm2 == RemoveSpaces(Replace(Replace(hm, "pm", "p"), "am", "a"))
    IN  IF hm_re(hm) # None THEN hm_re(hm) ELSE hm_re(hm2)

\* Returns the ISO text or "", or raises ValueError (from datetime).
parse_time_et_to_ct(date_ymd, et_text) ==
    LET m == TimeMatch(et_text)
        h12 == IntOf(Val(m).g1) % 12
        minute == IntOf(Val(m).g2)
        hour == IF Val(m).g3 = "p" THEN h12 + 12 ELSE h12
        y == date_ymd[1]
        mo == date_ymd[2]
        d == date_ymd[3]
    IN  IF m = None THEN Return("")
        ELSE IF ~ValidDateTime(y, mo, d, hour, minute) THEN Raise("ValueError")
        ELSE Return(strftime(astimezone(mo, d, hour, minute)))

(***************************************************************************)
(* build_schedule: the state of the line loop.                             *)
(***************************************************************************)
VARIABLES
    pc,            \* "loop" in the for loop, "returned" after line 170,
                   \* "raised" when an exception left build_schedule;
                   \* in a run of main also "fetch" before line 96,
                   \* "fetch_failed", "mkdir_done", "mkdir_failed", "opened",
                   \* "saved" and "write_failed"
    nread,         \* how many lines the loop has taken from `lines`
    ln,            \* the loop variable: the line taken last ("" before any)
    weeks,         \* dict: str(week) -> list of game records
    current_week,  \* None or Some(int)
    current_date,  \* None or Some(<<year, month, day>>)
    pending_game,  \* None or Some([away, home, note, neutral])
    game_counter,  \* dict: week -> int
    data,          \* main's `data`: None until build_schedule returns
    \* History variables: they record what happened and steer nothing.
    h_timed,       \* week -> one count per week-header of that week: the
                   \* bare-time lines taken in that scope with a date and
                   \* a pending game both present
    h_date_seen,   \* a date-header was parsed since the last week-header
    h_serial,      \* how many matchup lines filled pending_game so far
    h_pending,     \* the serial of the matchup in pending_game, 0 if none
    h_marks,       \* serial -> what became of that matchup: a subset of
                   \* {"emitted", "overwritten", "undated", "cut"}
    h_matchups,    \* week -> how many matchup lines filled pending_game
                   \* since the last week-header of that week
    \* A second run of build_schedule over the same lines, side by side.
    twin,          \* its locals, as a record
    \* The time normalizer called on its own (specification SpecTime).
    call,          \* None or Some([date_ymd, et_text]): the arguments
    ret,           \* None or Some(outcome of the call)
    \* main and what it touches (specification SpecMain).
    fetched,       \* None before fetch_lines was called, then its outcome
    fs,            \* None when build_schedule runs on its own, else
                   \* Some([dir, file]): whether OUT.parent exists and
                   \* what OUT holds (None: no such file)
    h_fs_before    \* history: fs when main started

loopVars ==
    <<pc, nread, ln, weeks, current_week, current_date, pending_game,
      game_counter, data>>

histVars ==
    <<h_timed, h_date_seen, h_serial, h_pending, h_marks, h_matchups>>

callVars == <<call, ret>>

mainVars == <<fetched, fs, h_fs_before>>

vars == <<loopVars, histVars, callVars, mainVars, twin>>

(***************************************************************************)
(* Bounds and inputs.                                                      *)
(***************************************************************************)
\* the longest list of lines fetch_lines hands over
MaxLines == 8

\* the longest list of lines in a run of main
MaxMainLines == 4

\* the lines a page is made of
Lines ==
    {"WEEK 1", "Week 01", "WEEK 2", "WEEK 0",
     "Thursday, Sept. 4, 2025", "Sunday, Feb. 30, 2025",
     "Sunday, sept. 7, 2025",
     "Dallas Cowboys at Philadelphia Eagles",
     "Kansas City Chiefs vs Los Angeles Chargers (Sao Paulo)",
     "8:20p (ET)", "8:20p", "8:75p",
     "BYE"}

\* arguments for the time normalizer called on its own
CallDates ==
    {<<2025, 9, 4>>, <<2025, 2, 30>>, <<2025, 3, 9>>, <<2025, 11, 2>>,
     <<2025, 1, 1>>, <<2025, 9, 0>>, <<2025, 13, 1>>}

CallTexts ==
    {"8:20p", "8:75p", "12:30a", "3:30a", "12:00p", "8:15 PM", " 1:00P ",
     "8:99 am", "noon", ""}

(***************************************************************************)
(* Python dicts as functions.                                              *)
(***************************************************************************)
EmptyDict == <<>>

DictSet(d, k, v) == [x \in (DOMAIN d) \cup {k} |-> IF x = k THEN v ELSE d[x]]

\* truth value of an optional int: None and 0 are false
TruthyInt(o) == o # None /\ Val(o) # 0

\* truth value of an optional dict or tuple that is never empty when present
TruthyObj(o) == o # None

(***************************************************************************)
(* The pieces of the loop body.                                            *)
(***************************************************************************)
\* line 136: `if gm and current_week`
MatchupGuard(gm, cw) == gm # None /\ TruthyInt(cw)

\* what the five patterns and normalize_date_line make of line l
MatchesOf(l) ==
    [week |-> week_re(l),
     date |-> date_re(l),
     game |-> game_re(l),
     zoned |-> time_with_zone_re(l),
     bare |-> time_bare_re(l),
     nd |-> IF date_re(l) THEN normalize_date_line(l) ELSE Return(None)]

\* MatchesOf tabulated on the set S of lines
RECURSIVE MatchesOn(_)
MatchesOn(S) ==
    IF S = {} THEN <<>>
    ELSE LET l == CHOOSE x \in S : TRUE
         IN  (l :> MatchesOf(l)) @@ MatchesOn(S \ {l})

\* what the patterns make of every line of the page, computed once
Matches == MatchesOn(Lines)

\* the date a line with matches mt makes current, None when it makes none
DateOf(mt) == IF mt.nd.raised THEN None ELSE mt.nd.value

\* the dates the date-headers of the page can set
PageDates == {Val(d) : d \in {DateOf(Matches[l]) : l \in Lines} \ {None}}

\* parse_time_et_to_ct tabulated on the set S of pairs <<date, line>>
RECURSIVE KickoffOn(_)
KickoffOn(S) ==
    IF S = {} THEN <<>>
    ELSE LET p == CHOOSE x \in S : TRUE
         IN  (p :> parse_time_et_to_ct(p[1], p[2])) @@ KickoffOn(S \ {p})

\* the outcome of parse_time_et_to_ct for every date and time line of the
\* page, computed once
\* a line with matches mt has the form of a time, zoned or bare
IsTime(mt) == mt.bare \/ mt.zoned

Kickoff == KickoffOn(PageDates \X {l \in Lines : IsTime(Matches[l])})

\* the order of the tests in the loop body: which branch takes a line with
\* matches mt when the current week is cw
BranchOf(mt, cw) ==
    IF mt.week # None THEN "week"
    ELSE IF mt.date THEN "date"
    ELSE IF MatchupGuard(mt.game, cw) THEN "matchup"
    ELSE IF mt.zoned THEN "zoned"
    ELSE IF mt.bare THEN "bare"
    ELSE "other"

\* the same order with the zoned form sent to the bare-time branch
BareBranchTakesZoned(mt, cw) ==
    IF BranchOf(mt, cw) = "zoned" THEN "bare" ELSE BranchOf(mt, cw)

\* a loop body whose bare-time branch also takes the lines of the zoned form
ZonedTakenForBare(l, cw) == BareBranchTakesZoned(Matches[l], cw)

\* which branch of the loop body takes line l when the current week is cw
Classify(l, cw) == BranchOf(Matches[l], cw)

\* lines 137-147: the pending game captured from match gm
PendingOf(gm) ==
    [away |-> Strip(gm.g1),
     home |-> Strip(gm.g3),
     note |-> IF gm.g4 # None /\ Val(gm.g4) # "" THEN Strip(Val(gm.g4))
              ELSE "",
     neutral |-> (Lower(gm.g2) = "vs")]

\* line 157: `if pending_game and current_week and current_date`
BareTimeGuard(pg, cw, cd) == TruthyObj(pg) /\ TruthyInt(cw) /\ TruthyObj(cd)

\* line 160
GameId(week, n) == "W" \o Str(week) \o "G" \o Str(n)

\* lines 161-167: the record appended to the week's list
NewRecord(gid, pg, iso_ct) ==
    [id |-> gid, away |-> pg.away, home |-> pg.home,
     kickoff_local |-> iso_ct, note |-> pg.note]

\* a header that empties the list of every week
ResetEveryWeek(w, week) == [k \in (DOMAIN w) \cup {Str(week)} |-> <<>>]

\* a header that leaves the list of a week it has seen before as it is
KeepWeek(w, week) ==
    IF Str(week) \in DOMAIN w THEN w ELSE DictSet(w, Str(week), <<>>)

\* line 121: weeks[str(current_week)] = []
ResetWeek(w, week) == DictSet(w, Str(week), <<>>)

\* a header that restarts the counter at 1
CounterFromOne(gc, week) == DictSet(gc, week, 1)

\* a header that leaves the counter of a week it has seen before as it is
KeepCounter(gc, week) == IF week \in DOMAIN gc THEN gc ELSE DictSet(gc, week, 0)

\* line 122: game_counter[current_week] = 0
ResetCounter(gc, week) == DictSet(gc, week, 0)

\* a header that forgets to clear
HeaderKeeps(old) == old

\* lines 123-124: current_date and pending_game after a week-header
HeaderClears(old) == None

\* a date-header that stores whatever the parse gave
DateAlways(cd, nd) == nd

\* lines 130-131: the current date after a date-header whose parse gave nd
DateAfter(cd, nd) == IF nd # None THEN nd ELSE cd

\* a matchup line that keeps a pending game it finds
KeepFirstPending(pg, gm) == IF pg # None THEN pg ELSE Some(PendingOf(gm))

\* lines 142-147: pending_game after a matchup line with match gm
PendingAfterMatchup(pg, gm) == Some(PendingOf(gm))

\* line 168 moved out of the `if` of line 157
PendingAlwaysCleared(finalized, pg) == None

\* line 168 left out
PendingNeverCleared(finalized, pg) == pg

\* line 168 sits inside the `if` of line 157: pending_game after a bare-time
\* line, finalized or not
PendingAfterBareTime(finalized, pg) == IF finalized THEN None ELSE pg

(***************************************************************************)
(* The loop as a function on the locals of one run, held in a record.      *)
(***************************************************************************)
\* locals left behind by an earlier run
LeftoverRun ==
    [pc |-> "loop", weeks |-> ("1" :> <<>>), current_week |-> Some(1),
     current_date |-> None, pending_game |-> None,
     game_counter |-> (1 :> 0), data |-> None]

\* lines 110-114: the locals of a run that starts
FreshRun ==
    [pc |-> "loop", weeks |-> EmptyDict, current_week |-> None,
     current_date |-> None, pending_game |-> None,
     game_counter |-> EmptyDict, data |-> None]

\* lines 158-168 in run s: parse_time_et_to_ct gave iso_ct
Finalize(s, iso_ct) ==
    LET week == Val(s.current_week)
        n == s.game_counter[week] + 1
        rec == NewRecord(GameId(week, n), Val(s.pending_game), iso_ct.value)
    IN  IF iso_ct.raised THEN [s EXCEPT !.pc = "raised"]
        ELSE [s EXCEPT !.game_counter = [@ EXCEPT ![week] = n],
                       !.weeks = [@ EXCEPT ![Str(week)] = Append(@, rec)],
                       !.pending_game =
                            PendingAfterBareTime(TRUE, s.pending_game)]

\* lines 117-168 in run s on line l, which branch `kind` takes and of which
\* the patterns make mt
Body(s, l, kind, mt) ==
    IF kind = "week"
    THEN [s EXCEPT !.current_week = Some(IntOf(Val(mt.week))),
                   !.weeks = ResetWeek(s.weeks, IntOf(Val(mt.week))),
                   !.game_counter =
                        ResetCounter(s.game_counter, IntOf(Val(mt.week))),
                   !.current_date = HeaderClears(s.current_date),
                   !.pending_game = HeaderClears(s.pending_game)]
    ELSE IF kind = "date"
    THEN IF mt.nd.raised THEN [s EXCEPT !.pc = "raised"]
         ELSE [s EXCEPT !.current_date =
                            DateAfter(s.current_date, mt.nd.value)]
    ELSE IF kind = "matchup"
    THEN [s EXCEPT !.pending_game =
                       PendingAfterMatchup(s.pending_game, Val(mt.game))]
    ELSE IF kind = "bare"
    THEN IF BareTimeGuard(s.pending_game, s.current_week, s.current_date)
         THEN Finalize(s, Kickoff[<<Val(s.current_date), l>>])
         ELSE [s EXCEPT !.pending_game =
                            PendingAfterBareTime(FALSE, s.pending_game)]
    ELSE s

\* lines 117-168: one pass of the loop body of run s on line l
Step(s, l) == Body(s, l, Classify(l, s.current_week), Matches[l])

\* line 170 in run s
Finish(s) ==
    [s EXCEPT !.pc = "returned",
              !.data = Some([year |-> SeasonYear, weeks |-> s.weeks])]

(***************************************************************************)
(* History bookkeeping.                                                    *)
(***************************************************************************)
\* one more matchup line in the open scope of `week`
MatchupCount(c, week) == [c EXCEPT ![week] = @ + 1]

\* a week-header for `week` opens a new scope with count 0
TimedOpen(t, week) ==
    DictSet(t, week, (IF week \in DOMAIN t THEN t[week] ELSE <<>>) \o <<0>>)

\* one more qualifying bare-time line in the open scope of `week`
TimedCount(t, week) ==
    LET scopes == t[week]
    IN  [t EXCEPT ![week] = [scopes EXCEPT ![Len(scopes)] = @ + 1]]

\* matchup `serial` (0: none) gets the mark `tag`
Mark(m, serial, tag) ==
    IF serial = 0 THEN m ELSE [m EXCEPT ![serial] = @ \cup {tag}]

(***************************************************************************)
(* Initial state: lines 110-114, nothing read yet.                         *)
(***************************************************************************)
LoopInit ==
    /\ pc = "loop"
    /\ nread = 0
    /\ ln = ""
    /\ weeks = EmptyDict
    /\ current_week = None
    /\ current_date = None
    /\ pending_game = None
    /\ game_counter = EmptyDict
    /\ data = None

HistInit ==
    /\ h_timed = EmptyDict
    /\ h_date_seen = FALSE
    /\ h_serial = 0
    /\ h_pending = 0
    /\ h_marks = <<>>
    /\ h_matchups = EmptyDict
    /\ twin = FreshRun

\* build_schedule on its own: fetch_lines has returned, no file is in play
MainIdle ==
    /\ fetched = Some(Return("lines"))
    /\ fs = None
    /\ h_fs_before = None

Init == LoopInit /\ HistInit /\ call = None /\ ret = None /\ MainIdle

\* how many lines the page of this run has at most
PageBound == IF fs = None THEN MaxLines ELSE MaxMainLines

\* the loop takes the next line, l
Take(l) ==
    /\ pc = "loop"
    /\ nread < PageBound
    /\ nread' = nread + 1
    /\ ln' = l
    /\ twin' = Step(twin, l)

(***************************************************************************)
(* The loop body, one action per branch.                                   *)
(***************************************************************************)
\* lines 118-125
WeekHeader ==
    \E l \in Lines :
        /\ Take(l)
        /\ Classify(l, current_week) = "week"
        /\ \E week \in {IntOf(Val(Matches[l].week))} :
               /\ current_week' = Some(week)
               /\ weeks' = ResetWeek(weeks, week)
               /\ game_counter' = ResetCounter(game_counter, week)
               /\ h_timed' = TimedOpen(h_timed, week)
               /\ h_matchups' = DictSet(h_matchups, week, 0)
        /\ current_date' = HeaderClears(current_date)
        /\ pending_game' = HeaderClears(pending_game)
        /\ h_date_seen' = FALSE
        /\ h_marks' = Mark(h_marks, h_pending, "cut")
        /\ h_pending' = 0
        /\ UNCHANGED <<pc, data, h_serial, callVars, mainVars>>

\* lines 128-132
DateHeader ==
    \E l \in Lines :
        /\ Take(l)
        /\ Classify(l, current_week) = "date"
        /\ \E nd \in {Matches[l].nd} :
               IF nd.raised
               THEN /\ pc' = "raised"
                    /\ UNCHANGED <<current_date, h_date_seen>>
               ELSE /\ pc' = pc
                    /\ current_date' = DateAfter(current_date, nd.value)
                    /\ h_date_seen' = (h_date_seen \/ nd.value # None)
        /\ UNCHANGED <<weeks, current_week, pending_game, game_counter, data,
                       h_timed, h_serial, h_pending, h_marks, h_matchups,
                       callVars, mainVars>>

\* lines 135-148
Matchup ==
    \E l \in Lines :
        /\ Take(l)
        /\ Classify(l, current_week) = "matchup"
        /\ pending_game' = PendingAfterMatchup(pending_game, Val(Matches[l].game))
        /\ h_serial' = h_serial + 1
        /\ h_pending' = h_serial + 1
        /\ h_marks' = Append(Mark(h_marks, h_pending, "overwritten"), {})
        /\ h_matchups' = MatchupCount(h_matchups, Val(current_week))
        /\ UNCHANGED <<pc, weeks, current_week, current_date, game_counter,
                       data, h_timed, h_date_seen, callVars, mainVars>>

\* lines 151-153
ZonedTime ==
    \E l \in Lines :
        /\ Take(l)
        /\ Classify(l, current_week) = "zoned"
        /\ UNCHANGED <<pc, weeks, current_week, current_date, pending_game,
                       game_counter, data, histVars, callVars, mainVars>>

\* lines 155-168
BareTime ==
    \E l \in Lines :
        /\ Take(l)
        /\ Classify(l, current_week) = "bare"
        /\ h_timed' = IF /\ current_week # None
                         /\ current_date # None
                         /\ pending_game # None
                      THEN TimedCount(h_timed, Val(current_week))
                      ELSE h_timed
        /\ IF BareTimeGuard(pending_game, current_week, current_date)
           THEN \E iso_ct \in {Kickoff[<<Val(current_date), l>>]} :
                LET week == Val(current_week)
                    n == game_counter[week] + 1
                    rec == NewRecord(GameId(week, n), Val(pending_game),
                                     iso_ct.value)
                IN  IF iso_ct.raised
                    THEN /\ pc' = "raised"
                         /\ UNCHANGED <<weeks, pending_game, game_counter,
                                        h_pending, h_marks>>
                    ELSE /\ pc' = pc
                         /\ game_counter' = [game_counter EXCEPT ![week] = n]
                         /\ weeks' = [weeks EXCEPT ![Str(week)] =
                                                       Append(@, rec)]
                         /\ pending_game' =
                                PendingAfterBareTime(TRUE, pending_game)
                         /\ h_marks' = Mark(h_marks, h_pending, "emitted")
                         /\ h_pending' = 0
           ELSE /\ pc' = pc
                /\ pending_game' = PendingAfterBareTime(FALSE, pending_game)
                /\ h_marks' = IF current_date = None
                              THEN Mark(h_marks, h_pending, "undated")
                              ELSE h_marks
                /\ h_pending' = IF pending_game' = None THEN 0 ELSE h_pending
                /\ UNCHANGED <<weeks, game_counter>>
        /\ UNCHANGED <<current_week, current_date, data, h_date_seen,
                       h_serial, h_matchups, callVars, mainVars>>

\* no branch takes the line
Unrecognized ==
    \E l \in Lines :
        /\ Take(l)
        /\ Classify(l, current_week) = "other"
        /\ UNCHANGED <<pc, weeks, current_week, current_date, pending_game,
                       game_counter, data, histVars, callVars, mainVars>>

\* line 170, and main's line 173: the list of lines is exhausted
ReturnDocument ==
    /\ pc = "loop"
    /\ pc' = "returned"
    /\ data' = Some([year |-> SeasonYear, weeks |-> weeks])
    /\ twin' = Finish(twin)
    /\ UNCHANGED <<nread, ln, weeks, current_week, current_date,
                   pending_game, game_counter, histVars, callVars, mainVars>>

Next ==
    \/ WeekHeader
    \/ DateHeader
    \/ Matchup
    \/ ZonedTime
    \/ BareTime
    \/ Unrecognized
    \/ ReturnDocument

Spec == Init /\ [][Next]_vars

(***************************************************************************)
(* The time normalizer called on its own, on arguments drawn from          *)
(* CallDates and CallTexts.                                                *)
(***************************************************************************)
InitTime ==
    /\ LoopInit
    /\ HistInit
    /\ call \in {Some([date_ymd |-> d, et_text |-> t]) :
                     d \in CallDates, t \in CallTexts}
    /\ ret = None
    /\ MainIdle

CallParseTime ==
    /\ call # None
    /\ ret = None
    /\ ret' = Some(parse_time_et_to_ct(Val(call).date_ymd, Val(call).et_text))
    /\ UNCHANGED <<call, loopVars, histVars, mainVars, twin>>

NextTime == CallParseTime

SpecTime == InitTime /\ [][NextTime]_vars

(***************************************************************************)
(* main: build_schedule with its fetch, then the directory and the file.   *)
(* What OUT holds is None (no file) or Some of: "old" (what an earlier run  *)
(* left), "empty" (just created or truncated by open), "partial" (a proper *)
(* prefix of the text) or "json" (the whole text of json.dumps(doc)).      *)
(***************************************************************************)
Content(kind, doc) == [kind |-> kind, doc |-> doc]

OldText == Content("old", None)

\* what reaches OUT of the text of json.dumps(doc): nothing, a proper prefix
\* or all of it
Written(part, doc) ==
    IF part = "all" THEN Content("json", Some(doc)) ELSE Content(part, None)

FsStates ==
    {[dir |-> FALSE, file |-> None],
     [dir |-> TRUE, file |-> None],
     [dir |-> TRUE, file |-> Some(OldText)]}

InitMain ==
    /\ pc = "fetch"
    /\ nread = 0
    /\ ln = ""
    /\ weeks = EmptyDict
    /\ current_week = None
    /\ current_date = None
    /\ pending_game = None
    /\ game_counter = EmptyDict
    /\ data = None
    /\ HistInit
    /\ call = None
    /\ ret = None
    /\ fetched = None
    /\ fs \in {Some(f) : f \in FsStates}
    /\ h_fs_before = fs

\* a failed fetch that build_schedule goes on from
FetchIgnored(outcome) == "loop"

\* line 96: an exception of fetch_lines leaves build_schedule and main
AfterFetch(outcome) == IF outcome.raised THEN "fetch_failed" ELSE "loop"

\* lines 85-93 called from line 96: requests.get or raise_for_status raises,
\* or the lines come back
FetchLines ==
    /\ pc = "fetch"
    /\ \E outcome \in {Return("lines"), Raise("RequestException"),
                        Raise("HTTPError")} :
           /\ fetched' = Some(outcome)
           /\ pc' = AfterFetch(outcome)
    /\ UNCHANGED <<nread, ln, weeks, current_week, current_date, pending_game,
                   game_counter, data, histVars, callVars, fs, h_fs_before,
                   twin>>

\* line 174: OUT.parent.mkdir(parents=True, exist_ok=True); it can fail only
\* when the directory has to be created
Mkdir ==
    /\ pc = "returned"
    /\ fs # None
    /\ \/ /\ fs' = Some([Val(fs) EXCEPT !.dir = TRUE])
          /\ pc' = "mkdir_done"
       \/ /\ ~Val(fs).dir
          /\ fs' = fs
          /\ pc' = "mkdir_failed"
    /\ UNCHANGED <<nread, ln, weeks, current_week, current_date, pending_game,
                   game_counter, data, histVars, callVars, fetched,
                   h_fs_before, twin>>

\* line 175, first half: write_text opens OUT for writing, which creates it
\* or truncates what it held; the open can be refused
OpenOut ==
    /\ pc = "mkdir_done"
    /\ \/ /\ fs' = Some([Val(fs) EXCEPT
                              !.file = Some(Written("empty", Val(data)))])
          /\ pc' = "opened"
       \/ /\ fs' = fs
          /\ pc' = "write_failed"
    /\ UNCHANGED <<nread, ln, weeks, current_week, current_date, pending_game,
                   game_counter, data, histVars, callVars, fetched,
                   h_fs_before, twin>>

\* line 175, second half: the text of json.dumps(data) is written and the
\* file closed; when the write raises (disk full) or the process dies, OUT
\* keeps what reached it: nothing or a prefix
WriteOut ==
    /\ pc = "opened"
    /\ \/ /\ fs' = Some([Val(fs) EXCEPT
                              !.file = Some(Written("all", Val(data)))])
          /\ pc' = "saved"
       \/ /\ \E part \in {"empty", "partial"} :
                 fs' = Some([Val(fs) EXCEPT
                                !.file = Some(Written(part, Val(data)))])
          /\ pc' = "write_failed"
    /\ UNCHANGED <<nread, ln, weeks, current_week, current_date, pending_game,
                   game_counter, data, histVars, callVars, fetched,
                   h_fs_before, twin>>

NextMain ==
    \/ FetchLines
    \/ WeekHeader
    \/ DateHeader
    \/ Matchup
    \/ ZonedTime
    \/ BareTime
    \/ Unrecognized
    \/ ReturnDocument
    \/ Mkdir
    \/ OpenOut
    \/ WriteOut

SpecMain == InitMain /\ [][NextMain]_vars

(***************************************************************************)
(* app.py: get_games_for_week on the `weeks` of a loaded schedule.  A dict  *)
(* is [kind |-> "dict", items |-> its <<key, games>> pairs in order], a     *)
(* list is [kind |-> "list", items |-> its elements].                      *)
(***************************************************************************)
\* line 58
Candidates(wk) == {wk, "Week " \o wk, "WEEK " \o wk, "week " \o wk}

\* lines 59-62: the games under the first key that is a candidate, else []
FirstCandidate(items, cands) ==
    LET hits == {i \in 1..Len(items) : items[i][1] \in cands}
    IN  IF hits = {} THEN <<>>
        ELSE items[CHOOSE i \in hits : \A j \in hits : i <= j][2]

\* lines 52-66
get_games_for_week(stored, week_num) ==
    LET wk == Str(week_num)
        idx == week_num - 1
    IN  IF stored.kind = "dict"
        THEN FirstCandidate(stored.items, Candidates(wk))
        ELSE IF stored.kind = "list"
        THEN (IF 0 <= idx /\ idx < Len(stored.items)
              THEN stored.items[idx + 1] ELSE <<>>)
        ELSE <<>>

\* keys a schedule file may use for its weeks
StoredKeys ==
    {"1", "Week 1", "WEEK 1", "week 1", "WeEk 1", "wEEK 1", "2", "Week 2"}

\* the games stored under key k
GamesUnder(k) == <<[id |-> "game under " \o k]>>

\* the `weeks` of the schedules looked into: dicts of one or two keys and
\* lists of one or two weeks
StoredWeeks ==
    {[kind |-> "dict", items |-> <<<<k, GamesUnder(k)>>>>] : k \in StoredKeys}
    \cup {[kind |-> "dict",
           items |-> <<<<p[1], GamesUnder(p[1])>>, <<p[2], GamesUnder(p[2])>>>>] :
              p \in {q \in StoredKeys \X StoredKeys : q[1] # q[2]}}
    \cup {[kind |-> "list", items |-> <<GamesUnder("1")>>],
          [kind |-> "list", items |-> <<GamesUnder("1"), GamesUnder("2")>>]}

InitLookup ==
    /\ LoopInit
    /\ HistInit
    /\ MainIdle
    /\ call \in {Some([stored |-> w, week_num |-> n]) :
                     w \in StoredWeeks, n \in {1, 2}}
    /\ ret = None

CallLookup ==
    /\ call # None
    /\ ret = None
    /\ ret' = Some(Return(get_games_for_week(Val(call).stored,
                                             Val(call).week_num)))
    /\ UNCHANGED <<call, loopVars, histVars, mainVars, twin>>

NextLookup == CallLookup

SpecLookup == InitLookup /\ [][NextLookup]_vars

(***************************************************************************)
(* Properties.                                                             *)
(***************************************************************************)
\* this step processed a line: ln' is that line
Took == nread' = nread + 1

\* this step finalized a game: a matchup got the mark "emitted"
Emitted ==
    \E k \in DOMAIN h_marks' :
        /\ "emitted" \in h_marks'[k]
        /\ (k \in DOMAIN h_marks => "emitted" \notin h_marks[k])

RECURSIVE SumSeq(_)
SumSeq(q) == IF q = <<>> THEN 0 ELSE Head(q) + SumSeq(Tail(q))

LastOf(q) == q[Len(q)]

\* C1 as claimed: in the returned document the number of records of week w
\* equals the number of bare-time lines taken while w was the current week
\* with a date and a pending game both present, over every scope of w, also
\* when w is announced by more than one week-header.
C1_CountEveryScope ==
    data # None =>
        \A w \in DOMAIN Val(data).weeks :
            Len(Val(data).weeks[w]) = SumSeq(h_timed[IntOf(w)])

\* C1 amended: the number of records of week w equals the number of
\* bare-time lines taken with a date and a pending game both present since
\* the last week-header that announced w; it holds after every line and in
\* the returned document.
C1_CountLastScope ==
    /\ pc = "loop" =>
           \A w \in DOMAIN weeks : Len(weeks[w]) = LastOf(h_timed[IntOf(w)])
    /\ data # None =>
           \A w \in DOMAIN Val(data).weeks :
               Len(Val(data).weeks[w]) = LastOf(h_timed[IntOf(w)])

\* a document is returned in which week 1 was announced twice, had a game in
\* its first scope and has one game from its second
C1_Witness ==
    /\ data # None
    /\ "1" \in DOMAIN Val(data).weeks
    /\ Len(Val(data).weeks["1"]) = 1
    /\ Len(h_timed[1]) = 2
    /\ h_timed[1][1] = 1

\* C2: after any sequence of lines the ids of the records of week w, in
\* order, are W<w>G1, W<w>G2, ..., W<w>Gn with n the length of the list.
C2_IdsInOrder ==
    \A w \in DOMAIN weeks :
        \A i \in 1..Len(weeks[w]) :
            weeks[w][i].id = "W" \o w \o "G" \o Str(i)

\* a week holds three records
C2_Witness == \E w \in DOMAIN weeks : Len(weeks[w]) = 3

\* C3: a week-header for week N, in any state, sets current_week to N,
\* weeks[str(N)] to the empty list and game_counter[N] to 0 and clears
\* current_date and pending_game; the first game finalized in a week's empty
\* list gets the id W<N>G1; no matchup pending at a header is ever emitted,
\* and a date in use was parsed after the last header.
C3_HeaderResets ==
    /\ [][(Took /\ Matches[ln'].week # None) =>
              LET N == IntOf(Val(Matches[ln'].week))
              IN  /\ current_week' = Some(N)
                  /\ weeks'[Str(N)] = <<>>
                  /\ game_counter'[N] = 0
                  /\ current_date' = None
                  /\ pending_game' = None]_vars
    /\ [][Emitted =>
              LET k == Str(Val(current_week))
              IN  weeks[k] = <<>> =>
                      /\ Len(weeks'[k]) = 1
                      /\ weeks'[k][1].id = "W" \o k \o "G1"]_vars
    /\ [](\A k \in DOMAIN h_marks : ~({"cut", "emitted"} \subseteq h_marks[k]))
    /\ [](current_date # None => h_date_seen)

\* week 1 holds a record, and the first game finalized after the header of
\* week 2 has the id W2G1
C3_Witness ==
    /\ "1" \in DOMAIN weeks
    /\ Len(weeks["1"]) >= 1
    /\ "2" \in DOMAIN weeks
    /\ Len(weeks["2"]) = 1
    /\ weeks["2"][1].id = "W2G1"

\* the week whose list this step appended a record to
Appended(k) ==
    /\ k \in DOMAIN weeks
    /\ k \in DOMAIN weeks'
    /\ Len(weeks'[k]) = Len(weeks[k]) + 1

\* C4 as claimed: every record appended by a successful bare-time line has
\* exactly the fields id, away, home, kickoff_local, note and neutral, with
\* away, home, note and neutral those of the pending matchup.
C4_RecordCarriesNeutral ==
    [][\A k \in DOMAIN weeks' :
           Appended(k) =>
               LET r == LastOf(weeks'[k])
               IN  /\ DOMAIN r = {"id", "away", "home", "kickoff_local",
                                  "note", "neutral"}
                   /\ r.away = Val(pending_game).away
                   /\ r.home = Val(pending_game).home
                   /\ r.note = Val(pending_game).note
                   /\ r.neutral = Val(pending_game).neutral]_vars

\* C5 as claimed: whatever the lines, the loop never ends in an exception.
C5_NeverAborts == pc # "raised"

\* s has the form YYYY-MM-DDTHH:MM:00
IsIso(s) ==
    /\ Len(s) = 19
    /\ \A i \in {1, 2, 3, 4, 6, 7, 9, 10, 12, 13, 15, 16} : IsDigit(Ch(s, i))
    /\ Ch(s, 5) = "-"
    /\ Ch(s, 8) = "-"
    /\ Ch(s, 11) = "T"
    /\ Ch(s, 14) = ":"
    /\ SubSeq(s, 17, 19) = ":00"

\* C6 as claimed: for every date triple and time text parse_time_et_to_ct
\* returns an ISO string or the empty string and never raises.
C6_NeverRaises ==
    ret # None =>
        /\ ~Val(ret).raised
        /\ (Val(ret).value = "" \/ IsIso(Val(ret).value))

\* this step processed a date-header whose parse failed
DateFailed ==
    /\ Took
    /\ Matches[ln'].week = None
    /\ Matches[ln'].date
    /\ (Matches[ln'].nd.raised \/ Matches[ln'].nd.value = None)

\* this step processed a bare-time line with no date-header parsed since the
\* last week-header
UndatedBareTime == Took /\ Matches[ln'].bare /\ ~h_date_seen

\* C7 as claimed: a date-header that fails to parse leaves current_date
\* unchanged; with no date parsed since the last week-header a bare-time line
\* is dropped, and no game is ever emitted for the matchup pending then.
C7_UndatedNeverEmitted ==
    /\ [][DateFailed => current_date' = current_date]_vars
    /\ [][UndatedBareTime =>
              pc' = pc /\ UNCHANGED <<weeks, game_counter>>]_vars
    /\ [](\A k \in DOMAIN h_marks :
              ~({"undated", "emitted"} \subseteq h_marks[k]))

\* C7 amended: a date-header that fails to parse leaves current_date
\* unchanged; with no date parsed since the last week-header a bare-time line
\* is dropped: no record, no error, and the pending matchup stays pending; a
\* game is emitted, for that matchup as for any, only by a bare-time line
\* processed after a date-header was parsed in the week.
C7_UndatedStaysPending ==
    /\ [][DateFailed => current_date' = current_date]_vars
    /\ [][UndatedBareTime =>
              pc' = pc /\ UNCHANGED <<weeks, game_counter, pending_game>>]_vars
    /\ [][Emitted => (Took /\ Matches[ln'].bare /\ h_date_seen)]_vars

\* a matchup that was pending at a bare-time line dropped for want of a
\* date has been emitted since, and a date-header has failed to parse
C7_Witness ==
    /\ \E k \in DOMAIN h_marks : {"undated", "emitted"} \subseteq h_marks[k]
    /\ nread > 0
    /\ Matches[ln].date
    /\ Matches[ln].nd.value = None

\* C8: a matchup line processed while a matchup is pending replaces it; the
\* next successful bare-time line appends exactly one record, with the away,
\* home and note of the pending (second) matchup, to one week and changes no
\* other record; no record is ever emitted for an overwritten matchup.
C8_SecondMatchupWins ==
    /\ [][(/\ Took
           /\ Classify(ln', current_week) = "matchup"
           /\ pending_game # None) =>
              pending_game' = Some(PendingOf(Val(Matches[ln'].game)))]_vars
    /\ [][Emitted =>
              \E k \in DOMAIN weeks :
                  /\ Appended(k)
                  /\ SubSeq(weeks'[k], 1, Len(weeks[k])) = weeks[k]
                  /\ LastOf(weeks'[k]).away = Val(pending_game).away
                  /\ LastOf(weeks'[k]).home = Val(pending_game).home
                  /\ LastOf(weeks'[k]).note = Val(pending_game).note
                  /\ DOMAIN weeks' = DOMAIN weeks
                  /\ \A j \in DOMAIN weeks \ {k} : weeks'[j] = weeks[j]]_vars
    /\ [](\A k \in DOMAIN h_marks :
              ~({"overwritten", "emitted"} \subseteq h_marks[k]))

\* the Dallas matchup was overwritten by the Kansas City one, which the
\* bare-time line just processed made the only record of its week
C8_Witness ==
    /\ Len(h_marks) = 2
    /\ h_marks[1] = {"overwritten"}
    /\ h_marks[2] = {"emitted"}
    /\ nread > 0
    /\ Matches[ln].bare
    /\ \E k \in DOMAIN weeks :
           /\ Len(weeks[k]) = 1
           /\ weeks[k][1].away = "Kansas City Chiefs"
           /\ weeks[k][1].note = "Sao Paulo"

\* C9 as claimed: with no week-header processed yet, matchup and bare-time
\* lines change nothing; once any week-header has been processed, WEEK 0
\* included, a matchup line replaces pending_game with its captured fields.
C9_ActiveAfterAnyHeader ==
    /\ [][(/\ Took
           /\ current_week = None
           /\ Matches[ln'].week = None
           /\ ~Matches[ln'].date
           /\ (Matches[ln'].game # None \/ Matches[ln'].bare)) =>
              (pc' = pc /\ UNCHANGED <<weeks, current_week, current_date,
                                       pending_game, game_counter>>)]_vars
    /\ [][(/\ Took
           /\ current_week # None
           /\ Matches[ln'].week = None
           /\ ~Matches[ln'].date
           /\ Matches[ln'].game # None) =>
              pending_game' = Some(PendingOf(Val(Matches[ln'].game)))]_vars

\* C10: a bare-time line processed while current_week, current_date or
\* pending_game is absent creates no record, raises nothing and leaves
\* weeks, game_counter, current_week, current_date and pending_game as they
\* were.
C10_DroppedBareTime ==
    [][(/\ Took
        /\ Matches[ln'].bare
        /\ (current_week = None \/ current_date = None \/ pending_game = None))
           => (pc' = pc /\ UNCHANGED <<weeks, game_counter, current_week,
                                       current_date, pending_game>>)]_vars

\* a bare-time line was just dropped for want of a date while a matchup was
\* pending, and the matchup is pending still
C10_Witness ==
    /\ nread > 0
    /\ pc = "loop"
    /\ Matches[ln].bare
    /\ current_date = None
    /\ pending_game # None
    /\ weeks[Str(Val(current_week))] = <<>>

\* no date of the page lets parse_time_et_to_ct turn line l into an ISO text
Unnormalizable(l) ==
    \A d \in PageDates :
        Kickoff[<<d, l>>].raised \/ ~IsIso(Kickoff[<<d, l>>].value)

\* C11 as claimed: a bare-time line whose time text cannot be normalized,
\* taken with week, date and pending game present, still finalizes the game:
\* the loop goes on, the week's counter advances by 1, a record with the next
\* id and kickoff_local "" is appended and pending_game is cleared.
C11_UnparseableFinalizes ==
    [][(/\ Took
        /\ Matches[ln'].bare
        /\ current_week # None
        /\ current_date # None
        /\ pending_game # None
        /\ Unnormalizable(ln')) =>
           LET w == Val(current_week)
           IN  /\ pc' = pc
               /\ game_counter'[w] = game_counter[w] + 1
               /\ Appended(Str(w))
               /\ LastOf(weeks'[Str(w)]).id = GameId(w, game_counter[w] + 1)
               /\ LastOf(weeks'[Str(w)]).kickoff_local = ""
               /\ pending_game' = None]_vars

\* the numbers in an ISO text
IsoFields(s) ==
    [year |-> IntOf(SubSeq(s, 1, 4)), month |-> IntOf(SubSeq(s, 6, 7)),
     day |-> IntOf(SubSeq(s, 9, 10)), hour |-> IntOf(SubSeq(s, 12, 13)),
     minute |-> IntOf(SubSeq(s, 15, 16))]

\* minutes from the start of the year before the season year
MinuteSince(y, mo, d, hour, minute) ==
    MinuteOfYear(y, mo, d, hour, minute)
        + (IF y >= SeasonYear THEN DaysInYear(SeasonYear - 1) * 1440 ELSE 0)
        + (IF y > SeasonYear THEN DaysInYear(SeasonYear) * 1440 ELSE 0)

\* at the New York wall-clock minute `wall` of the season year Chicago's
\* clock is one hour behind New York's
OneHourBehind(wall) ==
    NewYorkOffset(wall) - ChicagoOffset(wall - NewYorkOffset(wall)) = 60

\* C12: for a date D of the season year and a text H:MM followed by a or p
\* that datetime accepts, with source hour (H mod 12), plus 12 for p, the
\* normalizer returns an ISO text with seconds 00 and minute MM; when Chicago
\* is one hour behind New York at that time the text is the wall-clock one
\* hour earlier; 2025-09-04 and "8:20p" give "2025-09-04T19:20:00"; and 12:MMa
\* gives 23:MM on the calendar day before D.
C12_Conversion ==
    (ret # None /\ call # None) =>
        LET D == Val(call).date_ymd
            m == TimeMatch(Val(call).et_text)
            H == IntOf(Val(m).g1)
            MM == IntOf(Val(m).g2)
            hour == (H % 12) + (IF Val(m).g3 = "p" THEN 12 ELSE 0)
            r == IsoFields(Val(ret).value)
            src == MinuteSince(D[1], D[2], D[3], hour, MM)
            dst == MinuteSince(r.year, r.month, r.day, r.hour, r.minute)
        IN  (/\ m # None
             /\ D[1] = SeasonYear
             /\ ValidDateTime(D[1], D[2], D[3], hour, MM)) =>
                /\ ~Val(ret).raised
                /\ IsIso(Val(ret).value)
                /\ r.minute = MM
                /\ OneHourBehind(MinuteOfYear(D[1], D[2], D[3], hour, MM)) =>
                       dst = src - 60
                /\ (D = <<2025, 9, 4>> /\ Val(call).et_text = "8:20p") =>
                       Val(ret).value = "2025-09-04T19:20:00"
                /\ (H % 12 = 0 /\ Val(m).g3 = "a") =>
                       /\ r.hour = 23
                       /\ dst \div 1440 = (src \div 1440) - 1

\* half past midnight on New Year's Day in New York came back as 23:30 on
\* the last day of the year before
C12_Witness ==
    /\ call = Some([date_ymd |-> <<2025, 1, 1>>, et_text |-> "12:30a"])
    /\ ret = Some(Return("2024-12-31T23:30:00"))

\* C13: when fetch_lines fails the run is over at once: no line was or
\* will be processed, no document is built, the output directory and file
\* are as they were before the run, and no step follows.
C13_FetchFailureIsFatal ==
    /\ []((fetched # None /\ Val(fetched).raised) =>
              /\ pc = "fetch_failed"
              /\ nread = 0
              /\ weeks = EmptyDict
              /\ data = None
              /\ fs = h_fs_before)
    /\ [][pc # "fetch_failed"]_vars

\* the fetch failed in a run that found neither the directory nor the file
C13_Witness ==
    /\ pc = "fetch_failed"
    /\ fetched = Some(Raise("HTTPError"))
    /\ fs = Some([dir |-> FALSE, file |-> None])

\* C14 as claimed: when the write of the schedule file has failed or was cut
\* short, OUT holds either the complete new document or what it held before
\* the run.
C14_AllOrNothing ==
    pc = "write_failed" =>
        \/ Val(fs).file = Val(h_fs_before).file
        \/ Val(fs).file = Some(Written("all", Val(data)))

\* the locals of the run, as a record
RunState ==
    [pc |-> pc, weeks |-> weeks, current_week |-> current_week,
     current_date |-> current_date, pending_game |-> pending_game,
     game_counter |-> game_counter, data |-> data]

C19_OneRecordPerMatchup ==
    /\ [][(\E k \in DOMAIN weeks' : Appended(k)) =>
              (Emitted /\ Matches[ln'].bare /\ pending_game' = None)]_vars
    /\ [][(Took /\ Matches[ln'].bare /\ pending_game = None) =>
              UNCHANGED <<weeks, game_counter, pending_game>>]_vars
    /\ [](\A k \in DOMAIN weeks :
              /\ Len(weeks[k]) <= h_matchups[IntOf(k)]
              /\ Len(weeks[k]) <= LastOf(h_timed[IntOf(k)]))

\* a second bare-time line right after the one that finalized the only
\* matchup of week 1 was dropped: one matchup line, two bare-time lines, one
\* record
C19_Witness ==
    /\ nread = 5
    /\ Matches[ln].bare
    /\ pending_game = None
    /\ "1" \in DOMAIN weeks
    /\ Len(weeks["1"]) = 1
    /\ h_matchups[1] = 1
    /\ h_marks = <<{"emitted"}>>
    /\ LastOf(h_timed[1]) = 1

\* key k is an accepted form for week n: the bare number, or the word
\* "week" in any mix of letter cases, a space and the number
AcceptedKey(k, n) ==
    \/ k = Str(n)
    \/ /\ Len(k) = 5 + Len(Str(n))
       /\ Lower(SubSeq(k, 1, 4)) = "week"
       /\ SubSeq(k, 5, Len(k)) = " " \o Str(n)

\* C16 as claimed: on a dict, get_games_for_week(n) returns the games stored
\* under an accepted key form of week n whenever the dict has one, whatever
\* the letter case of "week", and the empty list only when it has none.
C16_AnyLetterCase ==
    (ret # None /\ call # None /\ Val(call).stored.kind = "dict") =>
        LET items == Val(call).stored.items
            n == Val(call).week_num
            hits == {i \in 1..Len(items) : AcceptedKey(items[i][1], n)}
        IN  IF hits = {} THEN Val(ret).value = <<>>
            ELSE \E i \in hits : Val(ret).value = items[i][2]

\* this step left the loop running and its locals as they were
LocalsKept ==
    /\ pc' = pc
    /\ UNCHANGED <<weeks, current_week, current_date, pending_game,
                   game_counter>>

\* no pattern of the loop matches line l
Unmatched(l) ==
    /\ Matches[l].week = None
    /\ ~Matches[l].date
    /\ Matches[l].game = None
    /\ ~Matches[l].zoned
    /\ ~Matches[l].bare

\* C17: a zoned-time line and a line no pattern matches leave current_week,
\* current_date, pending_game, the counters and weeks unchanged; no line of
\* the zoned form matches the bare-time pattern, so none finalizes a game.
C17_ZonedAndUnrecognizedIgnored ==
    /\ [][(Took /\ Matches[ln'].zoned) => LocalsKept]_vars
    /\ [][(Took /\ Unmatched(ln')) => LocalsKept]_vars
    /\ [](\A l \in Lines : Matches[l].zoned => ~Matches[l].bare)

\* a zoned-time line was just passed over with week, date and pending game
\* all present
C17_Witness ==
    /\ nread > 0
    /\ pc = "loop"
    /\ Matches[ln].zoned
    /\ BareTimeGuard(pending_game, current_week, current_date)
    /\ weeks[Str(Val(current_week))] = <<>>

\* C18: after every line, game_counter[w] is the length of weeks[str(w)] for
\* every week w that had a header, and the keys of weeks are exactly the
\* week numbers announced by the week-headers so far.
C18_CounterIsLength ==
    /\ DOMAIN game_counter = DOMAIN h_timed
    /\ DOMAIN weeks = {Str(w) : w \in DOMAIN h_timed}
    /\ \A w \in DOMAIN game_counter : game_counter[w] = Len(weeks[Str(w)])

\* week 1 holds two games and week 2, announced after it, none
C18_Witness ==
    /\ DOMAIN weeks = {"1", "2"}
    /\ game_counter[1] = 2
    /\ Len(weeks["1"]) = 2
    /\ game_counter[2] = 0
    /\ weeks["2"] = <<>>

\* C20: a week-header for week N empties weeks[str(N)] and restarts its
\* counter whatever the list held, and leaves the lists and counters of the
\* other weeks as they were; the returned document holds for each week as
\* many records as were finalized since the last header of that week,
\* numbered from G1.
C20_RepeatedHeaderReplaces ==
    /\ [][(Took /\ Matches[ln'].week # None) =>
              LET N == IntOf(Val(Matches[ln'].week))
              IN  /\ DOMAIN weeks' = (DOMAIN weeks) \cup {Str(N)}
                  /\ weeks'[Str(N)] = <<>>
                  /\ \A k \in (DOMAIN weeks) \ {Str(N)} : weeks'[k] = weeks[k]
                  /\ DOMAIN game_counter' = (DOMAIN game_counter) \cup {N}
                  /\ game_counter'[N] = 0
                  /\ \A w \in (DOMAIN game_counter) \ {N} :
                         game_counter'[w] = game_counter[w]]_vars
    /\ [](data # None =>
              \A k \in DOMAIN Val(data).weeks :
                  LET recs == Val(data).weeks[k]
                  IN  /\ Len(recs) = LastOf(h_timed[IntOf(k)])
                      /\ \A i \in 1..Len(recs) :
                             recs[i].id = GameId(IntOf(k), i))

\* week 1 was announced twice with a game finalized after each header; the
\* returned document holds the second game alone, as W1G1
C20_Witness ==
    /\ data # None
    /\ 1 \in DOMAIN h_timed
    /\ h_timed[1] = <<1, 1>>
    /\ Len(Val(data).weeks["1"]) = 1
    /\ Val(data).weeks["1"][1].id = "W1G1"

=============================================================================
